---- MODULE Spec2Model ----
(***************************************************************************)
(* Account lifecycle of the RedditClone server: UserResolver (me, login,   *)
(* logout, register, forgotPassword, resetPassword) over a user store      *)
(* (prisma), a session (express-session) and a token cache (redis).        *)
(* Strings are sequences of one-character strings so that String.trim()    *)
(* can be computed.                                                        *)
(***************************************************************************)
EXTENDS Integers, Sequences, FiniteSets, Bags, TLC

VARIABLES
    variant,        \* which of the two versions of the resolver is running
    users,          \* prisma.user table: set of rows [id, username, email, password]
    nextId,         \* the table's autoincrement id
    sessionUserId,  \* req.session.userId as kept by the session store, 0 = not set
    redis,          \* token cache: set of entries [key, value, ttl, age, redeemed]
    nextToken,      \* the next value v4() returns; tokens below it have been issued
    pending,        \* register calls suspended between validation and prisma.user.create (bag of options)
    resp            \* the call that returned last, with its arguments and its response

vars == <<variant, users, nextId, sessionUserId, redis, nextToken, pending, resp>>

----------------------------------------------------------------------------
(* Bounds of the model *)

MaxUsers == 2
MaxTokens == 2
MaxShortTicks == 2
MaxPending == 2

----------------------------------------------------------------------------
(* Strings *)

Str(c, n) == [i \in 1..n |-> c]

SPACE == " "

RECURSIVE TrimStart(_)
TrimStart(s) ==
    IF s # <<>> /\ Head(s) = SPACE THEN TrimStart(Tail(s)) ELSE s

RECURSIVE TrimEnd(_)
TrimEnd(s) ==
    IF s # <<>> /\ s[Len(s)] = SPACE THEN TrimEnd(SubSeq(s, 1, Len(s) - 1)) ELSE s

\* String.prototype.trim
Trim(s) == TrimEnd(TrimStart(s))

\* names used as usernames, emails and login credentials
NameA == <<"a">>
NameB == <<"b">>
NameApad == <<" ", "a">>

\* passwords: two that meet the strength policy, one padded, one too short
PwP == Str("p", 8)
PwQ == Str("q", 8)
PwPpad == PwP \o <<" ">>
PwWeak == <<"p">>

EmailInputs == {NameA, NameB}
UsernameInputs == {NameA, NameApad, NameB}
CredentialInputs == {NameA, NameApad, NameB}
RegisterPasswords == {PwP, PwPpad, PwWeak}
LoginPasswords == {PwP, PwPpad, PwQ}
\* (newPassword, newPasswordConfirm) pairs given to resetPassword
ResetPasswordPairs ==
    {<<PwP, PwP>>, <<PwPpad, PwPpad>>, <<PwPpad, PwP>>, <<PwQ, PwQ>>, <<PwQ, PwP>>,
     <<PwWeak, PwWeak>>}

----------------------------------------------------------------------------
(* Responses *)

NoUser == [id |-> 0]
NoErrors == <<>>

FieldError(f, m) == [field |-> f, message |-> m]

\* UserResponse { errors?, user? }
ErrorsResponse(errs) == [raised |-> FALSE, errors |-> errs, user |-> NoUser]
UserResponse(u) == [raised |-> FALSE, errors |-> NoErrors, user |-> u]
\* a rejected promise: the exception leaves the resolver
Raised == [raised |-> TRUE, errors |-> NoErrors, user |-> NoUser]

Fields(errs) == {errs[i].field : i \in 1..Len(errs)}

----------------------------------------------------------------------------
(* Credential hasher: argon2 *)

\* argon2.hash(password): the digest is opaque; it is kept as the salt drawn for
\* this call together with the string that was hashed
Argon2Hash(password, salt) == [salt |-> salt, plain |-> password]

\* argon2 draws a random salt per call. Salts are opaque and only compared, so
\* a call is given the least salt that no stored hash carries.
Salts == 1 .. (MaxUsers + 2)
FreshSalt ==
    CHOOSE s \in Salts :
        /\ \A r \in users : r.password.salt # s
        /\ \A t \in Salts : (t < s) => \E r \in users : r.password.salt = t

\* argon2.verify(hash, candidate)
Argon2Verify(hash, candidate) == hash.plain = candidate

----------------------------------------------------------------------------
(* User store: prisma.user *)

\* the unique indexes of the user table: username and email
UniqueViolation(data) ==
    \E r \in users : r.username = data.username \/ r.email = data.email

\* prisma.user.findFirst({ where: { OR: [{ username }, { email }] } }): the rows
\* the query may return; no ORDER BY is given, so any matching row can come first
FindFirstByCredential(credential) ==
    {r \in users : r.username = credential \/ r.email = credential}

\* prisma.user.findUnique({ where: { id } }): the row, or NoUser for null
FindUniqueById(id) ==
    IF \E r \in users : r.id = id
    THEN CHOOSE r \in users : r.id = id
    ELSE NoUser

\* an update without its where clause: every row gets the new hash
UpdatePasswordOfEveryUser(email, hashedPassword) ==
    {[r EXCEPT !.password = hashedPassword] : r \in users}

\* prisma.user.update({ where: { email }, data: { password } }): the table after it
UpdatePasswordByEmail(email, hashedPassword) ==
    {IF r.email = email THEN [r EXCEPT !.password = hashedPassword] ELSE r : r \in users}

----------------------------------------------------------------------------
(* Validators: each returns a list of FieldErrors *)

MinPasswordLength == 8

validateNewEmail(email) ==
    IF \E r \in users : r.email = email
    THEN <<FieldError("email", "A user with that email already exists")>>
    ELSE NoErrors

validateNewUsername(username) ==
    IF \E r \in users : r.username = username
    THEN <<FieldError("username", "A user with that username already exists")>>
    ELSE NoErrors

validateEmailExists(email) ==
    IF \E r \in users : r.email = email
    THEN NoErrors
    ELSE <<FieldError("email", "Could not find a user with that email")>>

validatePasswordStrength(password) ==
    IF Len(password) < MinPasswordLength
    THEN <<FieldError("password", "Password is too weak")>>
    ELSE NoErrors

validateCorrectPassword(hash, password) ==
    IF Argon2Verify(hash, password)
    THEN NoErrors
    ELSE <<FieldError("password", "Incorrect password")>>

validateNewPasswordsMatch(newPassword, newPasswordConfirm) ==
    IF newPassword = newPasswordConfirm
    THEN NoErrors
    ELSE <<FieldError("newPasswordConfirm", "Passwords do not match")>>

----------------------------------------------------------------------------
(* Token cache: redis *)

FORGET_PASSWORD_PREFIX == "forget-password:"

\* `${__FORGET_PASSWORD_PREFIX__}${token}`
TokenKey(token) == <<FORGET_PASSWORD_PREFIX, token>>

\* the expiry argument of redis.set(key, email, 'ex', ...): 'ex' counts seconds
TokenTTL == 1000 * 60 * 15

\* the fifteen minutes the token is documented to live, in seconds
FifteenMinutes == 15 * 60

Absent == <<>>

\* redis.set(key, value, 'ex', seconds): the cache after it. An entry carries
\* the seconds it has left; age (seconds since it was set) and redeemed (a
\* reset has succeeded with it) are history kept for the properties.
RedisSet(key, value, seconds) ==
    {e \in redis : e.key # key}
        \cup {[key |-> key, value |-> value, ttl |-> seconds, age |-> 0,
               redeemed |-> FALSE]}

\* redis.get(key): the value, or Absent for nil
RedisGet(key) ==
    IF \E e \in redis : e.key = key /\ e.ttl > 0
    THEN (CHOOSE e \in redis : e.key = key /\ e.ttl > 0).value
    ELSE Absent

\* the cache after `seconds` have passed: redis drops what has expired
RedisAfter(seconds) ==
    {[e EXCEPT !.ttl = @ - seconds, !.age = @ + seconds] : e \in {x \in redis : x.ttl > seconds}}

----------------------------------------------------------------------------
(* State after construction: empty table, no session user, empty cache *)

NoResponse == [op |-> "none"]

\* the resolver with email, sessions and password recovery (lines 1-307), and
\* the earlier one with username and password only (lines 309-430)
Variants == {"email", "usernameOnly"}

Init ==
    /\ variant \in Variants
    /\ users = {}
    /\ nextId = 1
    /\ sessionUserId = 0
    /\ redis = {}
    /\ nextToken = 1
    /\ pending = EmptyBag
    /\ resp = NoResponse

\* the previous response has been handed to the caller
Idle == resp = NoResponse

\* the caller takes the response
Return ==
    /\ ~Idle
    /\ UNCHANGED variant
    /\ resp' = NoResponse
    /\ UNCHANGED <<users, nextId, sessionUserId, redis, nextToken, pending>>

----------------------------------------------------------------------------
(* UserResolver *)

\* me: what the query returns in the current state
MeResult ==
    IF sessionUserId = 0 THEN NoUser ELSE FindUniqueById(sessionUserId)

Me ==
    /\ Idle
    /\ variant = "email"
    /\ UNCHANGED variant
    /\ resp' = [op |-> "me", out |-> MeResult]
    /\ UNCHANGED <<users, nextId, sessionUserId, redis, nextToken, pending>>

\* user(id): the row with that id, in both resolvers
User(id) ==
    /\ Idle
    /\ UNCHANGED variant
    /\ resp' = [op |-> "user", id |-> id, out |-> FindUniqueById(id)]
    /\ UNCHANGED <<users, nextId, sessionUserId, redis, nextToken, pending>>

\* login without the `if (errors.length > 0)` return after the password check
LoginResponseIgnoresErrors(user, password) ==
    IF user = NoUser
    THEN ErrorsResponse(<<FieldError("credential",
                            "Could not find a user with the provided credential")>>)
    ELSE UserResponse(user)

\* login: the response when findFirst returns `user` (NoUser for null)
LoginResponse(user, password) ==
    IF user = NoUser
    THEN ErrorsResponse(<<FieldError("credential",
                            "Could not find a user with the provided credential")>>)
    ELSE IF Len(validateCorrectPassword(user.password, password)) > 0
    THEN ErrorsResponse(validateCorrectPassword(user.password, password))
    ELSE UserResponse(user)

\* login: what findFirst can return, NoUser for null
LoginFound(credential) ==
    IF FindFirstByCredential(credential) = {}
    THEN {NoUser}
    ELSE FindFirstByCredential(credential)

\* login: every response the call can give in the current state
LoginResponses(credential, password) ==
    {LoginResponse(u, password) : u \in LoginFound(credential)}

\* login without `req.session.userId = user.id`
LoginKeepsSession(credential, password) ==
    /\ Idle
    /\ variant = "email"
    /\ UNCHANGED variant
    /\ \E found \in LoginFound(credential) :
        resp' = [op |-> "login", credential |-> credential, password |-> password,
                 found |-> found, out |-> LoginResponse(found, password)]
    /\ UNCHANGED <<users, nextId, sessionUserId, redis, nextToken, pending>>

Login(credential, password) ==
    /\ Idle
    /\ variant = "email"
    /\ UNCHANGED variant
    /\ \E found \in LoginFound(credential) :
        /\ sessionUserId' = IF LoginResponse(found, password).user # NoUser
                             THEN found.id
                             ELSE sessionUserId
        /\ resp' = [op |-> "login", credential |-> credential, password |-> password,
                    found |-> found, out |-> LoginResponse(found, password)]
    /\ UNCHANGED <<users, nextId, redis, nextToken, pending>>

\* logout that clears the cookie but leaves the stored session as it is
LogoutKeepsUserId(err) ==
    /\ Idle
    /\ variant = "email"
    /\ UNCHANGED variant
    /\ resp' = [op |-> "logout", userIdBefore |-> sessionUserId, err |-> err,
                out |-> ~err, cookieCleared |-> ~err]
    /\ UNCHANGED <<users, nextId, sessionUserId, redis, nextToken, pending>>

\* logout that clears the cookie before it looks at err
LogoutClearsCookieFirst(err) ==
    /\ Idle
    /\ variant = "email"
    /\ UNCHANGED variant
    /\ sessionUserId' = IF err THEN sessionUserId ELSE 0
    /\ resp' = [op |-> "logout", userIdBefore |-> sessionUserId, err |-> err,
                out |-> ~err, cookieCleared |-> TRUE]
    /\ UNCHANGED <<users, nextId, redis, nextToken, pending>>

\* logout: req.session.destroy calls back with err or without; the promise is
\* only ever resolved, with false or with true
Logout(err) ==
    /\ Idle
    /\ variant = "email"
    /\ UNCHANGED variant
    /\ sessionUserId' = IF err THEN sessionUserId ELSE 0
    /\ resp' = [op |-> "logout", userIdBefore |-> sessionUserId, err |-> err,
                out |-> ~err, cookieCleared |-> ~err]
    /\ UNCHANGED <<users, nextId, redis, nextToken, pending>>

\* register, lines 182-187: the trimmed options
TrimOptions(options) ==
    [email |-> Trim(options.email), username |-> Trim(options.username),
     password |-> Trim(options.password)]

\* register's error list without validateNewUsername
RegisterErrorsSkipUsername(options) ==
    validateNewEmail(TrimOptions(options).email)
        \o validatePasswordStrength(TrimOptions(options).password)

RegisterErrors(options) ==
    validateNewEmail(TrimOptions(options).email)
        \o validateNewUsername(TrimOptions(options).username)
        \o validatePasswordStrength(TrimOptions(options).password)

\* register, first half: validation; with no errors the call goes on to hash
\* and create, and other calls can run before it does
RegisterCall(options) ==
    /\ Idle
    /\ variant = "email"
    /\ UNCHANGED variant
    /\ IF Len(RegisterErrors(options)) > 0
       THEN /\ resp' = [op |-> "register", options |-> options,
                        out |-> ErrorsResponse(RegisterErrors(options))]
            /\ UNCHANGED pending
       ELSE /\ (nextId - 1) + BagCardinality(pending) < MaxUsers
            /\ BagCardinality(pending) < MaxPending
            /\ pending' = pending (+) SetToBag({options})
            /\ UNCHANGED resp
    /\ UNCHANGED <<users, nextId, sessionUserId, redis, nextToken>>

\* the row prisma.user.create writes
NewUser(options) ==
    [id |-> nextId,
     email |-> TrimOptions(options).email,
     username |-> TrimOptions(options).username,
     password |-> Argon2Hash(TrimOptions(options).password, FreshSalt)]

\* register's second half on a table that has no unique index
RegisterCreateUnchecked(options) ==
    /\ Idle
    /\ variant = "email"
    /\ UNCHANGED variant
    /\ BagIn(options, pending)
    /\ pending' = pending (-) SetToBag({options})
    /\ nextId' = nextId + 1
    /\ users' = users \cup {NewUser(options)}
    /\ sessionUserId' = nextId
    /\ resp' = [op |-> "register", options |-> options,
                out |-> UserResponse(NewUser(options))]
    /\ UNCHANGED <<redis, nextToken>>

\* register, second half: hash, create, bind the session. A violated unique
\* index makes create throw, and nothing in register catches it.
RegisterCreate(options) ==
    /\ Idle
    /\ variant = "email"
    /\ UNCHANGED variant
    /\ BagIn(options, pending)
    /\ pending' = pending (-) SetToBag({options})
    /\ nextId' = nextId + 1
    /\ IF UniqueViolation(NewUser(options))
       THEN /\ resp' = [op |-> "register", options |-> options, out |-> Raised]
            /\ UNCHANGED <<users, sessionUserId>>
       ELSE /\ users' = users \cup {NewUser(options)}
            /\ sessionUserId' = nextId
            /\ resp' = [op |-> "register", options |-> options,
                        out |-> UserResponse(NewUser(options))]
    /\ UNCHANGED <<redis, nextToken>>

\* what sendResetPasswordEmail was called with: the address, the token in the
\* link, and whether the cache mapped the token's key to the address at the
\* moment of the call; NoMail when it was not called
NoMail == [to |-> <<>>, token |-> 0, stored |-> FALSE]

Mail(to, token, cache) ==
    [to |-> to, token |-> token,
     stored |-> \E e \in cache : e.key = TokenKey(token) /\ e.value = to /\ e.ttl > 0]

\* forgotPassword without the `if (errors.length > 0)` return
ForgotPasswordNoValidation(email, sent) ==
    /\ Idle
    /\ variant = "email"
    /\ UNCHANGED variant
    /\ nextToken <= MaxTokens
    /\ nextToken' = nextToken + 1
    /\ redis' = RedisSet(TokenKey(nextToken), email, TokenTTL)
    /\ resp' = [op |-> "forgotPassword", email |-> email,
                mail |-> Mail(email, nextToken,
                              RedisSet(TokenKey(nextToken), email, TokenTTL)),
                out |-> IF sent THEN ErrorsResponse(NoErrors) ELSE Raised]
    /\ UNCHANGED <<users, nextId, sessionUserId, pending>>

\* forgotPassword that sends the email before it sets the cache entry
ForgotPasswordSendsFirst(email, sent) ==
    /\ Idle
    /\ variant = "email"
    /\ UNCHANGED variant
    /\ IF Len(validateEmailExists(email)) > 0
       THEN /\ resp' = [op |-> "forgotPassword", email |-> email, mail |-> NoMail,
                        out |-> ErrorsResponse(validateEmailExists(email))]
            /\ UNCHANGED <<redis, nextToken>>
       ELSE /\ nextToken <= MaxTokens
            /\ nextToken' = nextToken + 1
            /\ redis' = RedisSet(TokenKey(nextToken), email, TokenTTL)
            /\ resp' = [op |-> "forgotPassword", email |-> email,
                        mail |-> Mail(email, nextToken, redis),
                        out |-> IF sent THEN ErrorsResponse(NoErrors) ELSE Raised]
    /\ UNCHANGED <<users, nextId, sessionUserId, pending>>

\* forgotPassword: validate, draw a token, set the cache entry, then await
\* sendResetPasswordEmail. sent tells whether the send resolved; a send that
\* rejects is rethrown by the await on line 238, which nothing catches.
ForgotPassword(email, sent) ==
    /\ Idle
    /\ variant = "email"
    /\ UNCHANGED variant
    /\ IF Len(validateEmailExists(email)) > 0
       THEN /\ resp' = [op |-> "forgotPassword", email |-> email, mail |-> NoMail,
                        out |-> ErrorsResponse(validateEmailExists(email))]
            /\ UNCHANGED <<redis, nextToken>>
       ELSE /\ nextToken <= MaxTokens
            /\ nextToken' = nextToken + 1
            /\ redis' = RedisSet(TokenKey(nextToken), email, TokenTTL)
            /\ resp' = [op |-> "forgotPassword", email |-> email,
                        mail |-> Mail(email, nextToken,
                                      RedisSet(TokenKey(nextToken), email, TokenTTL)),
                        out |-> IF sent THEN ErrorsResponse(NoErrors) ELSE Raised]
    /\ UNCHANGED <<users, nextId, sessionUserId, pending>>

\* resetPassword's error list without validateNewPasswordsMatch
ResetErrorsSkipMatch(newPassword, newPasswordConfirm) ==
    validatePasswordStrength(Trim(newPassword))

\* resetPassword, lines 250-256: trim, then the error list
ResetErrors(newPassword, newPasswordConfirm) ==
    validateNewPasswordsMatch(Trim(newPassword), Trim(newPasswordConfirm))
        \o validatePasswordStrength(Trim(newPassword))

\* resetPassword without the `if (!userEmail)` return: a missing token goes on
\* to the update, which finds no row
ResetOutcomeNoTokenCheck(newPassword, newPasswordConfirm, token) ==
    LET userEmail == RedisGet(TokenKey(token))
        updated == UpdatePasswordByEmail(userEmail, Argon2Hash(Trim(newPassword), FreshSalt))
    IN
    IF Len(ResetErrors(newPassword, newPasswordConfirm)) > 0
    THEN [out |-> ErrorsResponse(ResetErrors(newPassword, newPasswordConfirm)),
          users |-> users, read |-> FALSE]
    ELSE IF ~ \E r \in users : r.email = userEmail
    THEN [out |-> ErrorsResponse(
                    <<FieldError("token", "This account does not exist anymore")>>),
          users |-> users, read |-> TRUE]
    ELSE [out |-> UserResponse(CHOOSE r \in updated : r.email = userEmail),
          users |-> updated, read |-> TRUE]

\* resetPassword without the try/catch around prisma.user.update: an update
\* that finds no row rejects the call
ResetOutcomeNoCatch(newPassword, newPasswordConfirm, token) ==
    LET userEmail == RedisGet(TokenKey(token))
        updated == UpdatePasswordByEmail(userEmail, Argon2Hash(Trim(newPassword), FreshSalt))
    IN
    IF Len(ResetErrors(newPassword, newPasswordConfirm)) > 0
    THEN [out |-> ErrorsResponse(ResetErrors(newPassword, newPasswordConfirm)),
          users |-> users, read |-> FALSE]
    ELSE IF userEmail = Absent
    THEN [out |-> ErrorsResponse(<<FieldError("token", "Token expired")>>),
          users |-> users, read |-> TRUE]
    ELSE IF ~ \E r \in users : r.email = userEmail
    THEN [out |-> Raised, users |-> users, read |-> TRUE]
    ELSE [out |-> UserResponse(CHOOSE r \in updated : r.email = userEmail),
          users |-> updated, read |-> TRUE]

\* resetPassword: the response, the table after the call, and whether the call
\* got as far as redis.get
ResetOutcome(newPassword, newPasswordConfirm, token) ==
    LET userEmail == RedisGet(TokenKey(token))
        updated == UpdatePasswordByEmail(userEmail, Argon2Hash(Trim(newPassword), FreshSalt))
    IN
    IF Len(ResetErrors(newPassword, newPasswordConfirm)) > 0
    THEN [out |-> ErrorsResponse(ResetErrors(newPassword, newPasswordConfirm)),
          users |-> users, read |-> FALSE]
    ELSE IF userEmail = Absent
    THEN [out |-> ErrorsResponse(<<FieldError("token", "Token expired")>>),
          users |-> users, read |-> TRUE]
    ELSE IF ~ \E r \in users : r.email = userEmail
    THEN [out |-> ErrorsResponse(
                    <<FieldError("token", "This account does not exist anymore")>>),
          users |-> users, read |-> TRUE]
    ELSE [out |-> UserResponse(CHOOSE r \in updated : r.email = userEmail),
          users |-> updated, read |-> TRUE]

ResetPassword(newPassword, newPasswordConfirm, token) ==
    /\ Idle
    /\ variant = "email"
    /\ UNCHANGED variant
    /\ users' = ResetOutcome(newPassword, newPasswordConfirm, token).users
    /\ resp' = [op |-> "resetPassword", newPassword |-> newPassword,
                newPasswordConfirm |-> newPasswordConfirm, token |-> token,
                usersBefore |-> users,
                redisRead |-> ResetOutcome(newPassword, newPasswordConfirm, token).read,
                replay |-> \E e \in redis : e.key = TokenKey(token) /\ e.redeemed,
                age |-> IF \E e \in redis : e.key = TokenKey(token)
                        THEN (CHOOSE e \in redis : e.key = TokenKey(token)).age
                        ELSE -1,
                out |-> ResetOutcome(newPassword, newPasswordConfirm, token).out]
    /\ redis' = IF ResetOutcome(newPassword, newPasswordConfirm, token).out.user # NoUser
                THEN {IF e.key = TokenKey(token) THEN [e EXCEPT !.redeemed = TRUE] ELSE e
                        : e \in redis}
                ELSE redis
    /\ UNCHANGED <<nextId, sessionUserId, nextToken, pending>>

----------------------------------------------------------------------------
(* The earlier resolver: username and password only, no session *)

\* the unique index of its user table
UsernameTaken(username) == \E r \in users : r.username = username

validateUserDoesNotExist(username) ==
    IF \E r \in users : r.username = username
    THEN <<FieldError("username", "A user with that username already exists")>>
    ELSE NoErrors

\* returns { errors, user }: the row and no errors, or null and an error
validateUserExists(username) ==
    IF \E r \in users : r.username = username
    THEN [errors |-> NoErrors, user |-> CHOOSE r \in users : r.username = username]
    ELSE [errors |-> <<FieldError("username", "Could not find a user with that username")>>,
          user |-> NoUser]

validatePasswordMatch(hash, password) ==
    IF Argon2Verify(hash, password)
    THEN NoErrors
    ELSE <<FieldError("password", "Incorrect password")>>

UsernameOnlyRegisterErrors(options) ==
    validateUserDoesNotExist(options.username)
        \o validatePasswordStrength(options.password)

\* register, first half: validation
UsernameOnlyRegisterCall(options) ==
    /\ Idle
    /\ variant = "usernameOnly"
    /\ UNCHANGED variant
    /\ IF Len(UsernameOnlyRegisterErrors(options)) > 0
       THEN /\ resp' = [op |-> "usernameOnlyRegister", options |-> options,
                        out |-> ErrorsResponse(UsernameOnlyRegisterErrors(options))]
            /\ UNCHANGED pending
       ELSE /\ (nextId - 1) + BagCardinality(pending) < MaxUsers
            /\ BagCardinality(pending) < MaxPending
            /\ pending' = pending (+) SetToBag({options})
            /\ UNCHANGED resp
    /\ UNCHANGED <<users, nextId, sessionUserId, redis, nextToken>>

UsernameOnlyNewUser(options) ==
    [id |-> nextId, username |-> options.username,
     password |-> Argon2Hash(options.password, FreshSalt)]

\* register, second half: hash and create
UsernameOnlyRegisterCreate(options) ==
    /\ Idle
    /\ variant = "usernameOnly"
    /\ UNCHANGED variant
    /\ BagIn(options, pending)
    /\ pending' = pending (-) SetToBag({options})
    /\ nextId' = nextId + 1
    /\ IF UsernameTaken(options.username)
       THEN /\ resp' = [op |-> "usernameOnlyRegister", options |-> options, out |-> Raised]
            /\ UNCHANGED users
       ELSE /\ users' = users \cup {UsernameOnlyNewUser(options)}
            /\ resp' = [op |-> "usernameOnlyRegister", options |-> options,
                        out |-> UserResponse(UsernameOnlyNewUser(options))]
    /\ UNCHANGED <<sessionUserId, redis, nextToken>>

UsernameOnlyLoginResponse(username, password) ==
    IF Len(validateUserExists(username).errors) > 0
            \/ validateUserExists(username).user = NoUser
    THEN ErrorsResponse(validateUserExists(username).errors)
    ELSE IF Len(validatePasswordMatch(validateUserExists(username).user.password,
                                      password)) > 0
    THEN ErrorsResponse(validatePasswordMatch(
                            validateUserExists(username).user.password, password))
    ELSE UserResponse(validateUserExists(username).user)

UsernameOnlyLogin(username, password) ==
    /\ Idle
    /\ variant = "usernameOnly"
    /\ UNCHANGED variant
    /\ resp' = [op |-> "usernameOnlyLogin", username |-> username,
                password |-> password,
                out |-> UsernameOnlyLoginResponse(username, password)]
    /\ UNCHANGED <<users, nextId, sessionUserId, redis, nextToken, pending>>

UsernamePasswordInputs == [username : UsernameInputs, password : RegisterPasswords]

----------------------------------------------------------------------------
(* Environment *)

ShortTick == FifteenMinutes + 1

\* time passes. Only the cache's entries depend on time, so the clock is not
\* run while the cache is empty; short steps are counted per entry.
Tick(seconds) ==
    /\ Idle
    /\ variant = "email"
    /\ UNCHANGED variant
    /\ redis # {}
    /\ \A e \in redis : e.ttl > seconds => e.age + seconds <= MaxShortTicks * ShortTick
    /\ redis' = RedisAfter(seconds)
    /\ UNCHANGED <<users, nextId, sessionUserId, nextToken, pending, resp>>

\* an account is deleted outside the resolver
DeleteUser(id) ==
    /\ Idle
    /\ UNCHANGED variant
    /\ \E r \in users : r.id = id
    /\ users' = {r \in users : r.id # id}
    /\ UNCHANGED <<nextId, sessionUserId, redis, nextToken, pending, resp>>

RegisterOptions ==
    [email : EmailInputs, username : UsernameInputs, password : RegisterPasswords]

TickSteps == {ShortTick, TokenTTL}

Next ==
    \/ Return
    \/ Me
    \/ \E id \in 1..MaxUsers : User(id)
    \/ \E c \in CredentialInputs, p \in LoginPasswords : Login(c, p)
    \/ \E err \in BOOLEAN : Logout(err)
    \/ \E o \in RegisterOptions : RegisterCall(o)
    \/ \E o \in RegisterOptions : RegisterCreate(o)
    \/ \E e \in CredentialInputs, sent \in BOOLEAN : ForgotPassword(e, sent)
    \/ \E pq \in ResetPasswordPairs, t \in 1..MaxTokens : ResetPassword(pq[1], pq[2], t)
    \/ \E d \in TickSteps : Tick(d)
    \/ \E o \in UsernamePasswordInputs : UsernameOnlyRegisterCall(o)
    \/ \E o \in UsernamePasswordInputs : UsernameOnlyRegisterCreate(o)
    \/ \E u \in UsernameInputs, p \in LoginPasswords : UsernameOnlyLogin(u, p)
    \/ \E id \in 1..MaxUsers : DeleteUser(id)

Spec == Init /\ [][Next]_vars

----------------------------------------------------------------------------
(* Accounts and sessions alone: the calls that never touch the token cache *)

NextAccounts ==
    \/ Return
    \/ Me
    \/ \E id \in 1..MaxUsers : User(id)
    \/ \E c \in CredentialInputs, p \in LoginPasswords : Login(c, p)
    \/ \E err \in BOOLEAN : Logout(err)
    \/ \E o \in RegisterOptions : RegisterCall(o)
    \/ \E o \in RegisterOptions : RegisterCreate(o)
    \/ \E o \in UsernamePasswordInputs : UsernameOnlyRegisterCall(o)
    \/ \E o \in UsernamePasswordInputs : UsernameOnlyRegisterCreate(o)
    \/ \E u \in UsernameInputs, p \in LoginPasswords : UsernameOnlyLogin(u, p)
    \/ \E id \in 1..MaxUsers : DeleteUser(id)

SpecAccounts == Init /\ [][NextAccounts]_vars

----------------------------------------------------------------------------
(* Password recovery alone, started from tables that register has filled *)

\* the row register creates for (email, username, PwP)
Registered(id, email, username) ==
    [id |-> id, email |-> email, username |-> username,
     password |-> Argon2Hash(PwP, id)]

RegisteredTables ==
    { {Registered(1, NameA, NameA)},
      {Registered(1, NameA, NameA), Registered(2, NameB, NameB)},
      {Registered(1, NameA, NameB), Registered(2, NameB, NameA)} }

InitRecovery ==
    /\ variant = "email"
    /\ users \in RegisteredTables
    /\ nextId = Cardinality(users) + 1
    /\ sessionUserId = 0
    /\ redis = {}
    /\ nextToken = 1
    /\ pending = EmptyBag
    /\ resp = NoResponse

NextRecovery ==
    \/ Return
    \/ \E c \in CredentialInputs, p \in LoginPasswords : Login(c, p)
    \/ \E e \in CredentialInputs, sent \in BOOLEAN : ForgotPassword(e, sent)
    \/ \E pq \in ResetPasswordPairs, t \in 1..MaxTokens : ResetPassword(pq[1], pq[2], t)
    \/ \E d \in TickSteps : Tick(d)
    \/ \E id \in 1..MaxUsers : DeleteUser(id)

SpecRecovery == InitRecovery /\ [][NextRecovery]_vars

----------------------------------------------------------------------------
(* Properties *)

TokenExpired == ErrorsResponse(<<FieldError("token", "Token expired")>>)

\* the last call was a resetPassword whose passwords passed validation
ResetValidated ==
    /\ resp.op = "resetPassword"
    /\ ResetErrors(resp.newPassword, resp.newPasswordConfirm) = NoErrors

\* C1: when register returns a user, a login with the username and password
\* strings that were given to register returns that user and no errors.
C1_RegisterThenLogin ==
    (resp.op = "register" /\ resp.out.user # NoUser)
        => LoginResponses(resp.options.username, resp.options.password)
                = {UserResponse(resp.out.user)}

\* C2: a resetPassword(p, p, t) with a live token t for an existing user, p
\* meeting the policy and different from the user's old password, succeeds;
\* afterwards login with p succeeds and login with the old password fails on
\* field password.
C2_ResetThenLogin ==
    LET e == RedisGet(TokenKey(resp.token))
        old == CHOOSE r \in resp.usersBefore : r.email = e
    IN  ( /\ resp.op = "resetPassword"
          /\ resp.newPassword = resp.newPasswordConfirm
          /\ validatePasswordStrength(resp.newPassword) = NoErrors
          /\ e # Absent
          /\ \E r \in resp.usersBefore : r.email = e
          /\ resp.newPassword # old.password.plain )
        => /\ resp.out.user # NoUser
           /\ \A out \in LoginResponses(old.username, resp.newPassword) :
                out.user # NoUser /\ out.user.id = old.id
           /\ \A out \in LoginResponses(old.username, old.password.plain) :
                Fields(out.errors) = {"password"}

\* C3: a resetPassword with a token that an earlier resetPassword has already
\* succeeded with returns a token error and leaves the table as it was.
C3_TokenSingleUse ==
    (ResetValidated /\ resp.replay)
        => ("token" \in Fields(resp.out.errors) /\ users = resp.usersBefore)

\* C4: a resetPassword with a token issued more than 15 minutes (900 s) ago
\* returns the Token expired error.
C4_TokenLivesFifteenMinutes ==
    (ResetValidated /\ resp.age > FifteenMinutes) => resp.out = TokenExpired

\* C5 as stated: after any logout call, whatever it returned, me returns null.
C5_LogoutAlwaysClears ==
    resp.op = "logout" => MeResult = NoUser

\* C5: after a logout call that returned true, me returns null.
C5_LogoutTrueClears ==
    (resp.op = "logout" /\ resp.out) => MeResult = NoUser

C5_Witness ==
    /\ resp.op = "logout"
    /\ resp.out
    /\ \E r \in users : r.id = resp.userIdBefore

\* C6: a register call whose (trimmed) username is already in the table
\* returns errors with one on field username, leaves the table and the
\* session's user id as they were and does not go on to create; so does a
\* register call of the username-only resolver (which does not trim).
C6_RegisterExistingUsername ==
    [][/\ \A o \in RegisterOptions :
        (RegisterCall(o) /\ \E r \in users : r.username = Trim(o.username))
            => /\ resp'.op = "register"
               /\ ~resp'.out.raised
               /\ "username" \in Fields(resp'.out.errors)
               /\ resp'.out.user = NoUser
               /\ users' = users
               /\ sessionUserId' = sessionUserId
               /\ pending' = pending
       /\ \A o \in UsernamePasswordInputs :
            (UsernameOnlyRegisterCall(o) /\ \E r \in users : r.username = o.username)
                => /\ resp'.op = "usernameOnlyRegister"
                   /\ ~resp'.out.raised
                   /\ "username" \in Fields(resp'.out.errors)
                   /\ resp'.out.user = NoUser
                   /\ users' = users
                   /\ sessionUserId' = sessionUserId
                   /\ pending' = pending]_vars

C6_Witness ==
    /\ resp.op = "register"
    /\ Fields(resp.out.errors) = {"username"}
    /\ \E r \in users : r.username = Trim(resp.options.username)

C6_WitnessUsernameOnly ==
    /\ resp.op = "usernameOnlyRegister"
    /\ Fields(resp.out.errors) = {"username"}
    /\ \E r \in users : r.username = resp.options.username

\* C7: a register call never ends with an exception: a create rejected by a
\* unique index gives a response with an error on username or email.
C7_RegisterNeverRaises ==
    resp.op = "register"
        => /\ ~resp.out.raised
           /\ resp.out.user = NoUser
                => Fields(resp.out.errors) \cap {"username", "email", "password"} # {}

\* C8: no two rows of the user table share a username, and no two share an
\* email.
C8_UniqueUsernameAndEmail ==
    \A r1 \in users, r2 \in users :
        r1 # r2 => /\ r1.username # r2.username
                   /\ variant = "email" => r1.email # r2.email
                   /\ r1.id # r2.id

\* two calls passed validation with the same username; one created the row,
\* the other's create was rejected
C8_Witness ==
    /\ variant = "email"
    /\ resp.op = "register"
    /\ resp.out.raised
    /\ \E r \in users : r.username = Trim(resp.options.username)

\* C9 for the username-only resolver, whose credential field is username
C9_UsernameOnlyLoginErrors ==
    resp.op = "usernameOnlyLogin" =>
        /\ (~ \E r \in users : r.username = resp.username)
            => /\ Len(resp.out.errors) = 1
               /\ resp.out.errors[1].field = "username"
               /\ resp.out.user = NoUser
        /\ (\E r \in users : r.username = resp.username
                               /\ ~Argon2Verify(r.password, resp.password))
            => /\ Len(resp.out.errors) = 1
               /\ resp.out.errors[1].field = "password"
               /\ resp.out.user = NoUser

\* C9: a login whose credential matches no row returns exactly one error, on
\* field credential; a login whose credential matches a row, with a password
\* that does not verify against the hash of the row found, returns exactly one
\* error, on field password. Neither returns a user. The same holds of the
\* username-only resolver.
C9_LoginErrors ==
    /\ C9_UsernameOnlyLoginErrors
    /\ resp.op = "login" =>
        /\ FindFirstByCredential(resp.credential) = {}
            => /\ Len(resp.out.errors) = 1
               /\ resp.out.errors[1].field = "credential"
               /\ resp.out.user = NoUser
        /\ (resp.found # NoUser /\ ~Argon2Verify(resp.found.password, resp.password))
            => /\ Len(resp.out.errors) = 1
               /\ resp.out.errors[1].field = "password"
               /\ resp.out.user = NoUser

C9_Witness ==
    /\ resp.op = "login"
    /\ resp.found \in users
    /\ ~Argon2Verify(resp.found.password, resp.password)
    /\ Fields(resp.out.errors) = {"password"}

C9_WitnessUsernameOnly ==
    /\ resp.op = "usernameOnlyLogin"
    /\ \E r \in users : r.username = resp.username
    /\ Fields(resp.out.errors) = {"password"}

C9_WitnessNoUser ==
    /\ resp.op = "login"
    /\ users # {}
    /\ Fields(resp.out.errors) = {"credential"}

\* C10 as stated: every resetPassword call whose token is not in the cache
\* returns Token expired and leaves the table as it was.
C10_AbsentTokenAlways ==
    (resp.op = "resetPassword" /\ RedisGet(TokenKey(resp.token)) = Absent)
        => (resp.out = TokenExpired /\ users = resp.usersBefore)

\* C10: every resetPassword call whose passwords pass validation and whose
\* token is not in the cache returns Token expired, the same for a token that
\* was never issued and for one that has expired, and leaves the table as it
\* was.
C10_AbsentTokenValidated ==
    (ResetValidated /\ RedisGet(TokenKey(resp.token)) = Absent)
        => (resp.out = TokenExpired /\ users = resp.usersBefore)

\* the token was issued and has expired
C10_Witness ==
    /\ ResetValidated
    /\ resp.token < nextToken
    /\ RedisGet(TokenKey(resp.token)) = Absent
    /\ resp.out = TokenExpired

\* the token was never issued
C10_WitnessNeverIssued ==
    /\ ResetValidated
    /\ resp.token >= nextToken
    /\ resp.out = TokenExpired

\* C11: a resetPassword whose trimmed newPassword and newPasswordConfirm differ
\* returns an error on field newPasswordConfirm and no user, does not read the
\* token cache and leaves the user table and the cache as they were, whatever
\* the token: live, expired or never issued. (A step from Idle to a
\* resetPassword response is a resetPassword call.)
C11_MismatchTouchesNothing ==
    [][( /\ Idle
         /\ resp'.op = "resetPassword"
         /\ Trim(resp'.newPassword) # Trim(resp'.newPasswordConfirm) )
            => /\ ~resp'.out.raised
               /\ "newPasswordConfirm" \in Fields(resp'.out.errors)
               /\ resp'.out.user = NoUser
               /\ ~resp'.redisRead
               /\ users' = users
               /\ redis' = redis]_vars

\* mismatched passwords given with a live token of an existing user
C11_Witness ==
    /\ resp.op = "resetPassword"
    /\ Trim(resp.newPassword) # Trim(resp.newPasswordConfirm)
    /\ RedisGet(TokenKey(resp.token)) # Absent
    /\ \E r \in users : r.email = RedisGet(TokenKey(resp.token))
    /\ "newPasswordConfirm" \in Fields(resp.out.errors)

\* mismatched passwords given with a token that has expired
C11_WitnessExpired ==
    /\ resp.op = "resetPassword"
    /\ Trim(resp.newPassword) # Trim(resp.newPasswordConfirm)
    /\ resp.token < nextToken
    /\ RedisGet(TokenKey(resp.token)) = Absent

\* C12: logout resolves to a boolean and never raises. When the session
\* destroy fails it resolves to false and leaves the cookie; when the destroy
\* succeeds it clears the cookie and resolves to true. The cookie is cleared
\* exactly when the result is true.
C12_LogoutResolvesBoolean ==
    resp.op = "logout"
        => /\ resp.out \in BOOLEAN
           /\ resp.err => (resp.out = FALSE /\ ~resp.cookieCleared)
           /\ ~resp.err => (resp.out = TRUE /\ resp.cookieCleared)
           /\ resp.cookieCleared <=> (resp.out = TRUE)

\* the destroy failed for a session that had a user
C12_Witness ==
    /\ resp.op = "logout"
    /\ resp.err
    /\ resp.out = FALSE
    /\ resp.userIdBefore # 0

AccountGone ==
    ErrorsResponse(<<FieldError("token", "This account does not exist anymore")>>)

\* C13: a resetPassword whose passwords pass validation, with a live token
\* whose email no longer belongs to any row, returns exactly the error
\* {token, "This account does not exist anymore"}, does not raise, and leaves
\* the user table as it was.
C13_DeletedAccount ==
    ( /\ ResetValidated
      /\ RedisGet(TokenKey(resp.token)) # Absent
      /\ ~ \E r \in resp.usersBefore : r.email = RedisGet(TokenKey(resp.token)) )
        => (resp.out = AccountGone /\ users = resp.usersBefore)

\* the account was deleted after its token was issued
C13_Witness ==
    /\ ResetValidated
    /\ resp.token < nextToken
    /\ RedisGet(TokenKey(resp.token)) # Absent
    /\ ~ \E r \in resp.usersBefore : r.email = RedisGet(TokenKey(resp.token))
    /\ resp.out = AccountGone

\* C14 as stated: after every register and every login that returned a user,
\* in either resolver, the session's user id is that user's id and me returns
\* that user.
C14_EverySuccessBindsSession ==
    ( /\ resp.op \in {"register", "login", "usernameOnlyRegister", "usernameOnlyLogin"}
      /\ resp.out.user # NoUser )
        => (sessionUserId = resp.out.user.id /\ MeResult = resp.out.user)

\* C14: after every register and every login of the resolver that has a
\* session (lines 71-307) that returned a user, the session's user id is that
\* user's id and me returns that user.
C14_SuccessBindsSession ==
    (resp.op \in {"register", "login"} /\ resp.out.user # NoUser)
        => (sessionUserId = resp.out.user.id /\ MeResult = resp.out.user)

\* a login as the first user after the second user registered, which had
\* bound the session to the second
C14_Witness ==
    /\ resp.op = "login"
    /\ resp.out.user # NoUser
    /\ resp.out.user.id = 1
    /\ \E r \in users : r.id = 2
    /\ sessionUserId = 1

C14_WitnessRegister ==
    /\ resp.op = "register"
    /\ resp.out.user # NoUser
    /\ resp.out.user.id = 2
    /\ sessionUserId = 2

\* C15: a forgotPassword whose email matches no row returns errors on field
\* email only, draws no token, leaves the token cache as it was, sends no
\* email, and leaves the user table and the session as they were.
C15_UnknownEmailNoEffect ==
    [][\A e \in CredentialInputs, sent \in BOOLEAN :
        (ForgotPassword(e, sent) /\ ~ \E r \in users : r.email = e)
            => /\ resp'.op = "forgotPassword"
               /\ ~resp'.out.raised
               /\ Fields(resp'.out.errors) = {"email"}
               /\ resp'.out.user = NoUser
               /\ resp'.mail = NoMail
               /\ nextToken' = nextToken
               /\ redis' = redis
               /\ users' = users
               /\ sessionUserId' = sessionUserId]_vars

\* an unknown email given while the table has a user and the cache a token
C15_Witness ==
    /\ resp.op = "forgotPassword"
    /\ ~ \E r \in users : r.email = resp.email
    /\ Fields(resp.out.errors) = {"email"}
    /\ users # {}
    /\ redis # {}

\* C16: a forgotPassword for an existing email returns the empty success
\* response (no errors, no user) whether the send resolves or rejects; a send
\* failure does not reach the caller.
C16_SendFailureNotSurfaced ==
    (resp.op = "forgotPassword" /\ resp.mail # NoMail)
        => resp.out = ErrorsResponse(NoErrors)

\* C17: in the table of the resolver with emails no user's username is another
\* user's email, so for every user U a login with U's username or U's email
\* and U's password returns U, whichever row findFirst comes back with.
C17_CredentialIdentifiesOneUser ==
    variant = "email" =>
        /\ \A a \in users, b \in users : a # b => a.username # b.email
        /\ \A u \in users : \A c \in {u.username, u.email} :
                LoginResponses(c, u.password.plain) = {UserResponse(u)}

\* C18: a forgotPassword for an existing email e sends the email with token t
\* to e when the cache already maps the prefixed key of t to e; the call adds
\* exactly one entry to the cache, that one, and leaves every entry of earlier
\* calls as it was.
C18_StoredBeforeSent ==
    [][\A e \in CredentialInputs, sent \in BOOLEAN :
        (ForgotPassword(e, sent) /\ \E r \in users : r.email = e)
            => /\ resp'.op = "forgotPassword"
               /\ resp'.mail.to = e
               /\ resp'.mail.stored
               /\ redis \subseteq redis'
               /\ Cardinality(redis' \ redis) = 1
               /\ \A n \in redis' \ redis :
                    /\ n.key = TokenKey(resp'.mail.token)
                    /\ n.value = e
                    /\ ~ \E o \in redis : o.key = n.key]_vars

\* the second token was issued while the first was still in the cache
C18_Witness ==
    /\ resp.op = "forgotPassword"
    /\ resp.mail.token = 2
    /\ resp.mail.stored
    /\ RedisGet(TokenKey(1)) # Absent
    /\ RedisGet(TokenKey(2)) = resp.mail.to

\* a row without its password hash
Identity(r) == [id |-> r.id, username |-> r.username, email |-> r.email]

\* C19: a resetPassword that returns a user, with a token issued for email e,
\* returns the user whose email is e and changes nothing but that user's
\* password hash: that user's id, username and email, every other user's row,
\* the number of rows and the session's user id are as they were.
C19_ResetChangesOneHash ==
    [][(Idle /\ resp'.op = "resetPassword" /\ resp'.out.user # NoUser)
            => /\ resp'.out.user.email = RedisGet(TokenKey(resp'.token))
               /\ resp'.out.user \in users'
               /\ {Identity(r) : r \in users'} = {Identity(r) : r \in users}
               /\ Cardinality(users') = Cardinality(users)
               /\ \A r \in users :
                    r.email # RedisGet(TokenKey(resp'.token)) => r \in users'
               /\ sessionUserId' = sessionUserId
               /\ nextId' = nextId]_vars

\* a reset of one user's password while the session is bound to the other
C19_Witness ==
    /\ resp.op = "resetPassword"
    /\ resp.out.user # NoUser
    /\ users # resp.usersBefore
    /\ Cardinality(users) = 2
    /\ sessionUserId # 0
    /\ sessionUserId # resp.out.user.id

====
